---- MODULE Spec2Model ----
(***************************************************************************)
(* Model of local-test-server.py: the command-line entry point, the        *)
(* start_test_server routine and the DSPTestHandler request handler.       *)
(*                                                                         *)
(* Python strings are sequences of text chunks; text that the program      *)
(* computes (the decimal rendering of a port, the message of an OSError)   *)
(* is built by the same concatenations as the f-strings of the source.     *)
(* The pictographs that start the printed lines are left out of the       *)
(* chunks; everything else of a line is kept literally.                    *)
(***************************************************************************)
EXTENDS FiniteSets, Integers, Sequences, TLC

VARIABLES
    argv,        \* sys.argv[1:], each argument a sequence of characters
    files,       \* the working directory: file name -> content or NoFile
    inUse,       \* ports held by other processes
    root,        \* whether the process may bind ports below 1024
    pc,          \* position of the process
    port,        \* the variable `port` of __main__ / start_test_server
    sock,        \* the listening socket of the TCPServer
    bindAttempts,\* the ports handed to socket.bind, in order
    out,         \* the lines printed on stdout, in order
    opened,      \* the URLs handed to webbrowser.open, in order
    exitStatus,  \* exit status of the process, NoStatus while it runs
    uncaught,    \* the exception that left start_test_server, or "none"
    sigints,     \* KeyboardInterrupts delivered after the socket was bound
    served,      \* number of requests handled by the serve loop
    lastReq,     \* the last request handled, or NoRequest
    lastResp     \* the bytes sent in answer to lastReq, or NoResponse

vars == <<argv, files, inUse, root, pc, port, sock, bindAttempts, out,
          opened, exitStatus, uncaught, sigints, served, lastReq, lastResp>>

----------------------------------------------------------------------------
(* Bounds *)

MaxRequests == 1

----------------------------------------------------------------------------
(* Text: int(), str() and f-string formatting *)

DigitChars == <<"0", "1", "2", "3", "4", "5", "6", "7", "8", "9">>

IsDigit(c) == \E i \in 1..10 : DigitChars[i] = c

DigitVal(c) == (CHOOSE i \in 1..10 : DigitChars[i] = c) - 1

RECURSIVE LStrip(_)
LStrip(s) == IF s # <<>> /\ Head(s) = " " THEN LStrip(Tail(s)) ELSE s

RECURSIVE RStrip(_)
RStrip(s) ==
    IF s # <<>> /\ s[Len(s)] = " " THEN RStrip(SubSeq(s, 1, Len(s) - 1)) ELSE s

Strip(s) == RStrip(LStrip(s))

Unsigned(t) == IF t # <<>> /\ t[1] \in {"+", "-"} THEN Tail(t) ELSE t

\* The grammar int(x) accepts in base 10: optional surrounding blanks, an
\* optional sign, then digits with single underscores between digits.
IsIntLiteral(s) ==
    LET b == Unsigned(Strip(s))
    IN  /\ b # <<>>
        /\ IsDigit(b[1])
        /\ IsDigit(b[Len(b)])
        /\ \A i \in 1..Len(b) :
              \/ IsDigit(b[i])
              \/ b[i] = "_" /\ i > 1 /\ i < Len(b) /\ IsDigit(b[i + 1])

RECURSIVE DigitsValue(_, _)
DigitsValue(b, acc) ==
    IF b = <<>> THEN acc
    ELSE IF IsDigit(Head(b)) THEN DigitsValue(Tail(b), 10 * acc + DigitVal(Head(b)))
    ELSE DigitsValue(Tail(b), acc)

IntValue(s) ==
    LET t == Strip(s)
        v == DigitsValue(Unsigned(t), 0)
    IN  IF t # <<>> /\ t[1] = "-" THEN 0 - v ELSE v

IntRaisesValueError_Never(s) == FALSE

\* int(sys.argv[1]) raises ValueError
IntRaisesValueError(s) == ~IsIntLiteral(s)

RECURSIVE NatToStr(_)
NatToStr(n) ==
    IF n < 10 THEN <<DigitChars[n + 1]>>
    ELSE NatToStr(n \div 10) \o <<DigitChars[(n % 10) + 1]>>

\* str(n) / f"{n}" of an integer
IntToStr(n) == IF n < 0 THEN <<"-">> \o NatToStr(0 - n) ELSE NatToStr(n)

\* `needle in s`
Contains(s, needle) == \E i \in DOMAIN s : s[i] = needle

----------------------------------------------------------------------------
(* Values *)

NoFile == <<"<no file>">>
NoStatus == -1
NoRequest ==
    [command |-> "", path |-> "", version |-> "<none>", cond |-> FALSE]
NoResponse == [status |-> -1, headers |-> <<>>, body |-> <<"<no response>">>]

TestFile == "test-page.html"

DefaultPort == 8000

\* Command lines tried: no argument, and one argument of each kind.
ArgvChoices ==
    { <<>>,
      << <<"8", "0", "0", "1">> >>,
      << <<" ", "+", "7", "_", "0", "0", "0", "0", " ">> >>,
      << <<"8", "0">> >>,
      << <<"0">> >>,
      << <<"7", "0", "0", "0", "0">> >>,
      << <<"-", "1">> >>,
      << <<"a", "b", "c">> >>,
      << <<"8", "0", ".", "5">> >>,
      << <<"8", "0", "_">> >>,
      << <<>> >> }

Contents == { <<"h", "e", "l", "l", "o">>, <<>> }

OtherProcessPorts == {80, 8001}

EphemeralPorts == {32768}

----------------------------------------------------------------------------
(* State after the interpreter has loaded the module *)

Init ==
    /\ argv \in ArgvChoices
    /\ files \in [{TestFile} -> Contents \cup {NoFile}]
    /\ inUse \in SUBSET OtherProcessPorts
    /\ root \in BOOLEAN
    /\ pc = "main"
    /\ port = DefaultPort
    /\ sock = [state |-> "none", port |-> 0]
    /\ bindAttempts = <<>>
    /\ out = <<>>
    /\ opened = <<>>
    /\ exitStatus = NoStatus
    /\ uncaught = "none"
    /\ sigints = 0
    /\ served = 0
    /\ lastReq = NoRequest
    /\ lastResp = NoResponse

----------------------------------------------------------------------------
(* __main__ *)

Main ==
    /\ pc = "main"
    /\ IF Len(argv) > 0 /\ IntRaisesValueError(argv[1])
       THEN /\ out' = Append(out, <<"Invalid port number">>)
            /\ exitStatus' = 1
            /\ pc' = "exited"
            /\ port' = port
       ELSE /\ port' = IF Len(argv) > 0 THEN IntValue(argv[1]) ELSE port
            /\ pc' = "check"
            /\ UNCHANGED <<out, exitStatus>>
    /\ UNCHANGED <<argv, files, inUse, root, sock, bindAttempts, opened,
                   uncaught, sigints, served, lastReq, lastResp>>

----------------------------------------------------------------------------
(* start_test_server: the marker-file check *)

MarkerMissing_Never(fs) == FALSE

\* not Path("test-page.html").exists()
MarkerMissing(fs) == fs[TestFile] = NoFile

CheckMarker ==
    /\ pc = "check"
    /\ IF MarkerMissing(files)
       THEN /\ out' = out \o
                << <<"test-page.html not found in current directory">>,
                   <<"Make sure you're running this from the project root directory">> >>
            /\ pc' = "done"
            /\ exitStatus' = 0
       ELSE /\ pc' = "bind"
            /\ UNCHANGED <<out, exitStatus>>
    /\ UNCHANGED <<argv, files, inUse, root, port, sock, bindAttempts, opened,
                   uncaught, sigints, served, lastReq, lastResp>>

----------------------------------------------------------------------------
(* Exceptions *)

OSError(errno, strerror) ==
    [type |-> "OSError", errno |-> errno, strerror |-> strerror]

OverflowError ==
    [type |-> "OverflowError", errno |-> 0,
     strerror |-> "bind(): port must be 0-65535."]

BrowserError ==
    [type |-> "webbrowser.Error", errno |-> 0,
     strerror |-> "could not locate runnable browser"]

KeyboardInterrupt ==
    [type |-> "KeyboardInterrupt", errno |-> 0, strerror |-> ""]

NoException == [type |-> "none", errno |-> 0, strerror |-> ""]

\* str(e) of an OSError built from an errno
StrOSError(e) == <<"[Errno ">> \o IntToStr(e.errno) \o <<"] ", e.strerror>>

----------------------------------------------------------------------------
(* start_test_server: socketserver.TCPServer(("", port), DSPTestHandler) *)

\* What socket.bind(("", p)) does: a port outside 0..65535 is rejected before
\* the system call, a port below 1024 needs privilege, a port held by another
\* process is refused, port 0 asks the system for an ephemeral port.
BindOutcome(p, used, isRoot) ==
    IF p \notin 0..65535 THEN OverflowError
    ELSE IF p \in 1..1023 /\ ~isRoot THEN OSError(13, "Permission denied")
    ELSE IF p \in used THEN OSError(98, "Address already in use")
    ELSE NoException

BoundPorts(p, used) == IF p = 0 THEN EphemeralPorts \ used ELSE {p}

ExceptOSError_NextPort(e, p) ==
    IF Contains(StrOSError(e), "Address already in use")
    THEN << <<"Port ">> \o IntToStr(p + 1) \o <<" is already in use">>,
            <<"Try a different port: python local-test-server.py ">>
                \o IntToStr(p + 1) >>
    ELSE << <<"Error starting server: ">> \o StrOSError(e) >>

\* The lines printed by the `except OSError as e` clause
ExceptOSError(e, p) ==
    IF Contains(StrOSError(e), "Address already in use")
    THEN << <<"Port ">> \o IntToStr(p) \o <<" is already in use">>,
            <<"Try a different port: python local-test-server.py ">>
                \o IntToStr(p + 1) >>
    ELSE << <<"Error starting server: ">> \o StrOSError(e) >>

\* The lines printed by the `except KeyboardInterrupt` clause
ExceptKeyboardInterrupt == << <<"\n", "Server stopped by user">> >>

\* The except clauses of the outer try statement
OuterCatches(e) == e.type \in {"OSError", "KeyboardInterrupt"}

OuterLines(e, p) ==
    IF e.type = "OSError" THEN ExceptOSError(e, p)
    ELSE IF e.type = "KeyboardInterrupt" THEN ExceptKeyboardInterrupt
    ELSE <<>>

WithExit_Leak(s) == s

\* Leaving the `with ... as httpd` block: TCPServer.__exit__ closes the socket
WithExit(s) == [s EXCEPT !.state = "closed"]

\* An exception e leaves the body of the outer try statement; s is the
\* socket as the unwinding left it.
Raised(e, s) ==
    /\ sock' = s
    /\ out' = out \o OuterLines(e, port)
    /\ IF OuterCatches(e)
       THEN /\ pc' = "done"
            /\ exitStatus' = 0
            /\ uncaught' = "none"
       ELSE /\ pc' = "crashed"
            /\ exitStatus' = 1
            /\ uncaught' = e.type

Bind ==
    /\ pc = "bind"
    /\ bindAttempts' = Append(bindAttempts, port)
    /\ LET e == BindOutcome(port, inUse, root)
       IN  IF e = NoException
           THEN /\ \E bp \in BoundPorts(port, inUse) :
                      sock' = [state |-> "listening", port |-> bp]
                /\ pc' = "banner"
                /\ UNCHANGED <<out, exitStatus, uncaught>>
           ELSE Raised(e, [sock EXCEPT !.state = "closed"])
    /\ UNCHANGED <<argv, files, inUse, root, port, opened, sigints, served,
                   lastReq, lastResp>>

TestPageURL(p) == <<"http://localhost:">> \o IntToStr(p) \o <<"/test-page.html">>

Banner ==
    /\ pc = "banner"
    /\ out' = out \o
         << <<"DSP Extension Test Server Starting...">>,
            <<"Server running at: http://localhost:">> \o IntToStr(port),
            <<"Test page: ">> \o TestPageURL(port),
            <<"Your HTML file: Place your DSP HTML file in this directory">>,
            <<"">>,
            <<"Extension Setup:">>,
            <<"1. Load your extension in the browser">>,
            <<"2. Open the test URL above">>,
            <<"3. Extension should automatically activate and highlight mismatches">>,
            <<"">>,
            <<"Press Ctrl+C to stop the server">>,
            <<"">> >>
    /\ pc' = "browser"
    /\ UNCHANGED <<argv, files, inUse, root, port, sock, bindAttempts, opened,
                   exitStatus, uncaught, sigints, served, lastReq, lastResp>>

InnerCatches_OSErrorOnly(e) == e.type = "OSError"

\* The bare `except:` around webbrowser.open
InnerCatches(e) == TRUE

\* The line printed by the bare except clause (not an f-string)
ManualOpenLine ==
    <<"Manually open http://localhost:{port}/test-page.html in your browser">>

\* An exception e is raised inside the inner try statement
RaisedInBrowserLaunch(e) ==
    IF InnerCatches(e)
    THEN /\ out' = Append(out, ManualOpenLine)
         /\ pc' = "serve"
         /\ UNCHANGED <<sock, exitStatus, uncaught>>
    ELSE Raised(e, WithExit(sock))

BrowserOutcomes == {"True", "False", "Error"}

OpenBrowser(outcome) ==
    /\ pc = "browser"
    /\ opened' = Append(opened, TestPageURL(port))
    /\ IF outcome = "Error"
       THEN RaisedInBrowserLaunch(BrowserError)
       ELSE /\ out' = Append(out, <<"Opening test page in browser...">>)
            /\ pc' = "serve"
            /\ UNCHANGED <<sock, exitStatus, uncaught>>
    /\ UNCHANGED <<argv, files, inUse, root, port, bindAttempts, sigints,
                   served, lastReq, lastResp>>

EnterServe ==
    /\ pc = "serve"
    /\ pc' = "serving"
    /\ UNCHANGED <<argv, files, inUse, root, port, sock, bindAttempts, out,
                   opened, exitStatus, uncaught, sigints, served, lastReq,
                   lastResp>>

\* Ctrl+C while the socket is bound
Interrupt ==
    /\ pc \in {"banner", "browser", "serve", "serving"}
    /\ sigints' = sigints + 1
    /\ IF pc = "browser"
       THEN /\ opened' = Append(opened, TestPageURL(port))
            /\ RaisedInBrowserLaunch(KeyboardInterrupt)
       ELSE /\ opened' = opened
            /\ Raised(KeyboardInterrupt, WithExit(sock))
    /\ UNCHANGED <<argv, files, inUse, root, port, bindAttempts, served,
                   lastReq, lastResp>>

\* serve_forever fails with an OSError of the selector
ServeLoopOSError ==
    /\ pc = "serving"
    /\ Raised(OSError(9, "Bad file descriptor"), WithExit(sock))
    /\ UNCHANGED <<argv, files, inUse, root, port, bindAttempts, opened,
                   sigints, served, lastReq, lastResp>>

----------------------------------------------------------------------------
(* DSPTestHandler: one request handled by the serve loop *)

\* Request lines tried.  version "" is a two-word request line (an HTTP/0.9
\* simple request); cond says that the request carries an If-Modified-Since
\* header that is not older than the file and no If-None-Match header.
Commands == {"GET", "HEAD", "POST", "OPTIONS"}
Paths == {"/test-page.html", "/missing.html"}
Versions == {"", "HTTP/1.1", "HTTP/2.0", "FOO/1.1"}

Requests ==
    { r \in [command : Commands, path : Paths, version : Versions,
             cond : BOOLEAN] :
        r.cond => /\ r.command = "GET"
                  /\ r.path = "/test-page.html"
                  /\ r.version = "HTTP/1.1" }

RequestLine(r) ==
    <<r.command, " ", r.path>>
        \o (IF r.version = "" THEN <<>> ELSE <<" ", r.version>>)

EmptyResponse == [status |-> NoStatus, headers |-> <<>>, body |-> <<>>]

\* BaseHTTPRequestHandler.send_response_only: the status line
send_response_only(resp, rv, code) ==
    IF rv # "HTTP/0.9" THEN [resp EXCEPT !.status = code] ELSE resp

\* BaseHTTPRequestHandler.send_header
send_header(resp, rv, keyword, value) ==
    IF rv # "HTTP/0.9"
    THEN [resp EXCEPT !.headers = Append(@, <<keyword, value>>)]
    ELSE resp

\* BaseHTTPRequestHandler.send_response
send_response(resp, rv, code) ==
    send_header(
        send_header(send_response_only(resp, rv, code),
                    rv, "Server", <<"SimpleHTTP/0.6 Python">>),
        rv, "Date", <<"<date>">>)

end_headers_NoOrigin(resp, rv) ==
    send_header(
        send_header(resp, rv, "Access-Control-Allow-Methods",
                    <<"GET, POST, OPTIONS">>),
        rv, "Access-Control-Allow-Headers", <<"Content-Type">>)

\* DSPTestHandler.end_headers
end_headers(resp, rv) ==
    send_header(
        send_header(
            send_header(resp, rv, "Access-Control-Allow-Origin", <<"*">>),
            rv, "Access-Control-Allow-Methods", <<"GET, POST, OPTIONS">>),
        rv, "Access-Control-Allow-Headers", <<"Content-Type">>)

ErrorBody(code, message) ==
    <<"<error page ">> \o IntToStr(code) \o <<" ">> \o message \o <<">">>

\* BaseHTTPRequestHandler.send_error
send_error(rv, command, code, message) ==
    LET r1 == send_header(send_response(EmptyResponse, rv, code),
                          rv, "Connection", <<"close">>)
        r2 == send_header(
                  send_header(r1, rv, "Content-Type",
                              <<"text/html;charset=utf-8">>),
                  rv, "Content-Length", <<"<length of error page>">>)
        r3 == end_headers(r2, rv)
    IN  IF command # "HEAD"
        THEN [r3 EXCEPT !.body = ErrorBody(code, message)]
        ELSE r3

\* The version checks of BaseHTTPRequestHandler.parse_request: <<>> when the
\* version word is malformed (ValueError).
VersionNumber(v) ==
    IF v = "HTTP/1.1" THEN <<1, 1>>
    ELSE IF v = "HTTP/2.0" THEN <<2, 0>>
    ELSE <<>>

ParseFailure(r) ==
    IF r.version # "" /\ VersionNumber(r.version) = <<>>
    THEN [code |-> 400, message |-> <<"Bad request version ('", r.version, "')">>]
    ELSE IF r.version # "" /\ VersionNumber(r.version)[1] >= 2
    THEN [code |-> 505, message |-> <<"Invalid HTTP version (2.0)">>]
    ELSE IF r.version = "" /\ r.command # "GET"
    THEN [code |-> 400,
          message |-> <<"Bad HTTP/0.9 request type ('", r.command, "')">>]
    ELSE [code |-> 0, message |-> <<>>]

\* self.request_version once parse_request has returned
RequestVersion(r) ==
    IF r.version # "" /\ ParseFailure(r).code = 0 THEN r.version ELSE "HTTP/0.9"

ServingRoot_Elsewhere(fs) == [n \in DOMAIN fs |-> NoFile]

\* DSPTestHandler.__init__: directory=os.getcwd()
ServingRoot(fs) == fs

\* SimpleHTTPRequestHandler.translate_path and open(path, 'rb')
OpenFile(dir, path) ==
    IF path = "/test-page.html" THEN dir[TestFile] ELSE NoFile

\* SimpleHTTPRequestHandler.do_GET / do_HEAD
send_head(r, rv, dir) ==
    IF OpenFile(dir, r.path) = NoFile
    THEN send_error(rv, r.command, 404, <<"File not found">>)
    ELSE IF r.cond
    THEN end_headers(send_response(EmptyResponse, rv, 304), rv)
    ELSE LET content == OpenFile(dir, r.path)
             r1 == send_header(
                       send_header(
                           send_header(send_response(EmptyResponse, rv, 200),
                                       rv, "Content-type", <<"text/html">>),
                           rv, "Content-Length", IntToStr(Len(content))),
                       rv, "Last-Modified", <<"<mtime>">>)
             r2 == end_headers(r1, rv)
         IN  IF r.command = "GET" THEN [r2 EXCEPT !.body = content] ELSE r2

\* BaseHTTPRequestHandler.handle_one_request: the bytes sent for request r
Respond(r, fs) ==
    LET rv == RequestVersion(r)
        pf == ParseFailure(r)
    IN  IF pf.code # 0 THEN send_error(rv, "", pf.code, pf.message)
        ELSE IF r.command \notin {"GET", "HEAD"}
        THEN send_error(rv, r.command, 501,
                        <<"Unsupported method ('", r.command, "')">>)
        ELSE send_head(r, rv, ServingRoot(fs))

\* The status code handed to send_response / send_error for request r
ResponseCode(r, fs) ==
    LET pf == ParseFailure(r)
    IN  IF pf.code # 0 THEN pf.code
        ELSE IF r.command \notin {"GET", "HEAD"} THEN 501
        ELSE IF OpenFile(ServingRoot(fs), r.path) = NoFile THEN 404
        ELSE IF r.cond THEN 304
        ELSE 200

\* DSPTestHandler.log_message; "[log] " stands for the globe pictograph and
\* the blank that start the line
log_message(text) == <<"[log] ">> \o text

\* The lines logged for request r: log_error from send_error, then
\* log_request from send_response
LogLines(r, fs) ==
    LET code == ResponseCode(r, fs)
        requestLog == log_message(<<"\"">> \o RequestLine(r) \o <<"\" ">>
                                  \o IntToStr(code) \o <<" -">>)
    IN  IF code >= 400
        THEN << log_message(<<"code ">> \o IntToStr(code) \o <<", message">>),
                requestLog >>
        ELSE << requestLog >>

HandleRequest(r) ==
    /\ pc = "serving"
    /\ served < MaxRequests
    /\ served' = served + 1
    /\ lastReq' = r
    /\ lastResp' = Respond(r, files)
    /\ out' = out \o LogLines(r, files)
    /\ UNCHANGED <<argv, files, inUse, root, pc, port, sock, bindAttempts,
                   opened, exitStatus, uncaught, sigints>>

\* Another process rewrites or removes test-page.html while the server runs
WriteFile(content) ==
    /\ pc = "serving"
    /\ files[TestFile] # content
    /\ files' = [files EXCEPT ![TestFile] = content]
    /\ UNCHANGED <<argv, inUse, root, pc, port, sock, bindAttempts, out,
                   opened, exitStatus, uncaught, sigints, served, lastReq,
                   lastResp>>

Next ==
    \/ Main
    \/ CheckMarker
    \/ Bind
    \/ Banner
    \/ \E o \in BrowserOutcomes : OpenBrowser(o)
    \/ EnterServe
    \/ Interrupt
    \/ ServeLoopOSError
    \/ \E r \in Requests : HandleRequest(r)
    \/ \E c \in Contents \cup {NoFile} : WriteFile(c)

Spec == Init /\ [][Next]_vars

----------------------------------------------------------------------------
(* Properties *)

Terminal == pc \in {"done", "exited", "crashed"}

Handled == served' = served + 1

CORSHeaders ==
    { <<"Access-Control-Allow-Origin", <<"*">> >>,
      <<"Access-Control-Allow-Methods", <<"GET, POST, OPTIONS">> >>,
      <<"Access-Control-Allow-Headers", <<"Content-Type">> >> }

\* Each CORS header occurs exactly once in the response, with its value
HasCORS(resp) ==
    \A h \in CORSHeaders :
        /\ \E i \in DOMAIN resp.headers : resp.headers[i] = h
        /\ Cardinality({i \in DOMAIN resp.headers : resp.headers[i][1] = h[1]}) = 1

\* C1 as stated: every response the server sends, whatever the method, the
\* path and the outcome, carries the three CORS headers with their values.
C1_EveryResponseHasCORS ==
    lastResp # NoResponse => HasCORS(lastResp)

\* C1 amended: every response that has a status line carries the three CORS
\* headers exactly once with their values; a request line that parses as
\* HTTP/1.x always gets such a response (404 and 501 included); the other
\* responses (to a two-word HTTP/0.9 request line, to a malformed or
\* unsupported version word) consist of a body only and carry no header.
C1_ResponsesWithHeadersHaveCORS ==
    lastResp # NoResponse =>
        /\ lastResp.status # NoStatus => HasCORS(lastResp)
        /\ lastReq.version = "HTTP/1.1" => lastResp.status # NoStatus
        /\ lastResp.status = NoStatus => lastResp.headers = <<>>

C1_Witness ==
    /\ lastReq.command = "OPTIONS"
    /\ lastReq.version = "HTTP/1.1"
    /\ lastResp.status = 501
    /\ HasCORS(lastResp)

\* C2: when test-page.html is missing at the check, the routine returns at
\* once: no bind is ever attempted, no socket exists, the browser is not
\* launched, no request is served, and nothing happens afterwards.
C2_MissingMarkerNeverBinds ==
    [][/\ ~Terminal
       /\ (pc = "check" /\ files[TestFile] = NoFile) =>
              /\ pc' = "done"
              /\ bindAttempts' = <<>>
              /\ sock'.state = "none"
              /\ opened' = <<>>
              /\ served' = 0]_vars

C2_Witness ==
    /\ pc = "done"
    /\ files[TestFile] = NoFile
    /\ bindAttempts = <<>>
    /\ Len(out) = 2
    /\ out[1] = <<"test-page.html not found in current directory">>

PortInUseLines(p) ==
    << <<"Port ">> \o IntToStr(p) \o <<" is already in use">>,
       <<"Try a different port: python local-test-server.py ">>
           \o IntToStr(p + 1) >>

BindRefusedAsInUse ==
    /\ pc' = "done"
    /\ out' = out \o PortInUseLines(port)
    /\ bindAttempts' = <<port>>
    /\ sock'.state # "listening"

\* C3 as stated: whenever the requested port is held by another process,
\* the routine makes one bind attempt, prints the message naming the port
\* and suggesting port + 1, binds nothing and stops.
C3_PortInUseNamesPort ==
    [][/\ ~Terminal
       /\ (pc = "bind" /\ port \in inUse) => BindRefusedAsInUse]_vars

\* C3 amended: the same, for a requested port the process is allowed to
\* bind (1024 and above, or any port when privileged).  A port below 1024
\* requested without privilege is refused with "Permission denied" whether
\* or not it is in use, and the line printed is the underlying error.
C3_PortInUseNamesPortWhenPermitted ==
    [][/\ ~Terminal
       /\ (pc = "bind" /\ port \in inUse /\ (root \/ port >= 1024)) =>
              BindRefusedAsInUse
       /\ (pc = "bind" /\ port \in inUse /\ ~(root \/ port >= 1024)) =>
              /\ pc' = "done"
              /\ bindAttempts' = <<port>>
              /\ sock'.state # "listening"
              /\ out'[Len(out')][1] = "Error starting server: "]_vars

C3_Witness ==
    /\ pc = "done"
    /\ port = 8001
    /\ bindAttempts = <<8001>>
    /\ out = PortInUseLines(8001)
    /\ sock.state = "closed"

NonIntegerArguments ==
    { <<"a", "b", "c">>, <<"8", "0", ".", "5">>, <<"8", "0", "_">>, <<>> }

\* C4: with a first argument that is not an integer literal the process
\* prints the error and exits with status 1; the marker file is not
\* checked (none of its messages is printed), no bind is attempted and the
\* browser is not launched.
C4_InvalidPortExits ==
    (Len(argv) > 0 /\ argv[1] \in NonIntegerArguments /\ pc # "main") =>
        /\ pc = "exited"
        /\ exitStatus = 1
        /\ out = << <<"Invalid port number">> >>
        /\ bindAttempts = <<>>
        /\ sock.state = "none"
        /\ opened = <<>>
        /\ served = 0

C4_Witness ==
    /\ pc = "exited"
    /\ argv = << <<"8", "0", ".", "5">> >>
    /\ exitStatus = 1

\* C5 as stated: every failed bind, whatever its cause and whatever integer
\* the command line supplied, ends with a printed message and a clean
\* return (exit status 0, no exception left uncaught).
C5_BindFailureReturnsCleanly ==
    [][(pc = "bind" /\ pc' # "banner") =>
          /\ pc' = "done"
          /\ uncaught' = "none"
          /\ exitStatus' = 0
          /\ Len(out') > Len(out)]_vars

\* C6 as stated: a KeyboardInterrupt delivered at any point after the
\* socket was bound stops the server and prints "Server stopped by user".
C6_InterruptStopsServer ==
    [][(sigints' = sigints + 1) =>
          /\ pc' = "done"
          /\ sock'.state = "closed"
          /\ out' = out \o << <<"\n", "Server stopped by user">> >>]_vars

\* C7: whatever webbrowser.open does (returns True, returns False, raises),
\* the step that leaves the browser launch goes on to the call of
\* serve_forever with the socket still listening, and unless the user
\* interrupts, that call enters the serve loop.
C7_BrowserNeverPreventsServing ==
    [][/\ pc = "browser" => (pc' = "serve" /\ sock' = sock
                              /\ sock.state = "listening")
       /\ (pc = "serve" /\ sigints' = sigints) =>
              (pc' = "serving" /\ sock' = sock)]_vars

C7_Witness ==
    /\ pc = "serving"
    /\ sigints = 0
    /\ out[Len(out)] = ManualOpenLine
    /\ sock.state = "listening"

StartupSteps ==
    /\ (pc = "banner" /\ sigints' = sigints) => pc' = "browser"
    /\ (pc = "browser" /\ sigints' = sigints) => pc' = "serve"
    /\ (pc = "serve" /\ sigints' = sigints) => pc' = "serving"
    /\ pc' = "serving" => (sock'.state = "listening" /\ sock'.port = sock.port)

\* C8 as stated: with the marker file present, the bind of any port in
\* 1..65535 that no other process holds succeeds on exactly that port and
\* the routine goes on into the serve loop; there a GET of /test-page.html
\* is answered with status 200 and the bytes of the file.
C8_StartAndServeTestPage ==
    [][/\ (pc = "bind" /\ port \in 1..65535 /\ port \notin inUse) =>
              (pc' = "banner" /\ sock' = [state |-> "listening", port |-> port])
       /\ StartupSteps
       /\ (/\ Handled
           /\ lastReq'.command = "GET"
           /\ lastReq'.path = "/test-page.html"
           /\ files[TestFile] # NoFile) =>
              (lastResp'.status = 200 /\ lastResp'.body = files[TestFile])]_vars

\* C8 amended: the same for a port the process is allowed to bind (1024 and
\* above, or any port in 1..65535 when privileged), and for a GET whose
\* request line carries an HTTP/1.x version and that is not answered from
\* the client's cache (no If-Modified-Since).
C8_StartAndServeTestPageWhenPermitted ==
    [][/\ (/\ pc = "bind"
           /\ port \in 1..65535
           /\ port \notin inUse
           /\ (root \/ port >= 1024)) =>
              (pc' = "banner" /\ sock' = [state |-> "listening", port |-> port])
       /\ StartupSteps
       /\ (/\ Handled
           /\ lastReq'.command = "GET"
           /\ lastReq'.path = "/test-page.html"
           /\ lastReq'.version = "HTTP/1.1"
           /\ ~lastReq'.cond
           /\ files[TestFile] # NoFile) =>
              (lastResp'.status = 200 /\ lastResp'.body = files[TestFile])]_vars

C8_Witness ==
    /\ pc = "serving"
    /\ port = 8001
    /\ sock = [state |-> "listening", port |-> 8001]
    /\ lastReq = [command |-> "GET", path |-> "/test-page.html",
                  version |-> "HTTP/1.1", cond |-> FALSE]
    /\ lastResp.status = 200
    /\ lastResp.body = <<"h", "e", "l", "l", "o">>

\* C9: there is one listening socket per run, and once the routine has
\* ended, by interruption, by an error or by a failed bind, the socket is
\* no longer listening.
C9_SocketReleasedOnExit ==
    /\ Len(bindAttempts) <= 1
    /\ sock.state = "listening" => pc \in {"banner", "browser", "serve", "serving"}
    /\ (Terminal /\ bindAttempts # <<>>) => sock.state = "closed"

C9_Witness ==
    /\ pc = "done"
    /\ sigints > 0
    /\ served > 0
    /\ sock.state = "closed"
    /\ out[Len(out)] = <<"\n", "Server stopped by user">>

\* C10 as stated: the browser is launched at most once, only after the
\* marker check passed and the socket was bound, before the serve loop, and
\* the URL names the port the socket is bound to.
C10_BrowserOpensBoundPort ==
    /\ pc \in {"main", "check", "bind", "banner"} => opened = <<>>
    /\ Len(opened) <= 1
    /\ opened # <<>> =>
          /\ Len(bindAttempts) = 1
          /\ sock.state \in {"listening", "closed"}
          /\ opened[1] = <<"http://localhost:">> \o IntToStr(sock.port)
                             \o <<"/test-page.html">>

====
